---- MODULE Spec2Model ----
(***************************************************************************)
(* Model of the dual-channel network client of the ATC GUI:                *)
(*   NetworkManager (src/gui/atc_gui/utils/network_manager.py), the        *)
(*   supervisor, and UdpClient (src/gui/atc_gui/utils/udp_client.py), the  *)
(*   media channel.                                                        *)
(*                                                                         *)
(* utils/tcp_client.py (TcpClient) is not among the sources; it is         *)
(* modelled from section 4.2 of the specification.  NetworkManager also    *)
(* uses four members of UdpClient that udp_client.py does not define       *)
(* (is_connected, start_streaming, stop_streaming and the signal           *)
(* connection_status_changed); they are modelled from section 4.3 of the   *)
(* specification.  Everything else is translated from the two files.       *)
(***************************************************************************)
EXTENDS Integers, Sequences, FiniteSets, TLC

\* ---------------------------------------------------------------- bounds
\* longest datagram, in bytes of the abstract alphabet
MaxLen == 3
\* socket objects and receive threads of the UdpClient alive at one time
MaxSockets == 2
\* settings.server.max_reconnect_attempts
MaxAttempts == 2
\* settings.server.reconnect_interval, in clock ticks
ReconnectInterval == 1
\* control-channel events queued for the GUI thread at one time
MaxEvents == 1
\* CCTV requests the server has not answered yet
MaxPending == 1

\* ------------------------------------------------------ datagram decoding
\* The bytes of a datagram.  "SEP" is Constants.UDP_DATA_SEPARATOR, "J" the
\* bytes of a complete compressed image (as a camera identifier it is the
\* letter J, which names no camera), "U" a byte that is not valid UTF-8,
\* "A" and "B" the two camera letters.
SEP == "SEP"
Bytes == {"A", "B", "U", "J", SEP}

SeqsUpTo(S, n) == UNION {[1..k -> S] : k \in 0..n}

Datagrams == SeqsUpTo(Bytes, MaxLen)

\* The datagrams the supervisor's specification draws from: a frame of each
\* camera and a datagram without separator.
SampleDatagrams == {<<"A", SEP, "J">>, <<"B", SEP, "J">>, <<"A", "J">>}

\* bytes.split(separator): the pieces between all occurrences of it.
RECURSIVE split(_)
split(data) ==
  IF \A i \in 1..Len(data) : data[i] # SEP
  THEN <<data>>
  ELSE LET i == CHOOSE k \in 1..Len(data) :
                  data[k] = SEP /\ \A j \in 1..(k - 1) : data[j] # SEP
       IN  <<SubSeq(data, 1, i - 1)>> \o split(SubSeq(data, i + 1, Len(data)))

\* bytes.decode('utf-8') raises UnicodeDecodeError on an invalid byte.
decode_raises(bytes) == \E i \in 1..Len(bytes) : bytes[i] = "U"

\* cv2.imdecode: raises on an empty buffer, returns None when the buffer is
\* no image container, and a frame otherwise (bytes after the image ignored).
imdecode(image_data) ==
  IF Len(image_data) = 0 THEN "raise"
  ELSE IF image_data[1] = "J" THEN "frame"
  ELSE "None"

\* One iteration of the body of the receive loop on a received datagram.
\* signal: the UdpClient signal emitted, or "none";
\* outcome: how the iteration ended.  Every exception is caught by the
\* handler of the loop, so no outcome leaves the loop ("raised" is the
\* outcome of an exception that would propagate out of the thread).
ProcessDatagramUnguarded(data) ==
  LET parts == split(data) IN
  IF Len(parts) # 2 THEN [signal |-> "none", outcome |-> "raised"]
  ELSE IF decode_raises(parts[1]) THEN [signal |-> "none", outcome |-> "caught"]
  ELSE IF imdecode(parts[2]) = "raise" THEN [signal |-> "none", outcome |-> "caught"]
  ELSE IF imdecode(parts[2]) = "None" THEN [signal |-> "none", outcome |-> "undecodable"]
  ELSE IF parts[1] = <<"A">> THEN [signal |-> "frame_a_received", outcome |-> "frame"]
  ELSE IF parts[1] = <<"B">> THEN [signal |-> "frame_b_received", outcome |-> "frame"]
  ELSE [signal |-> "none", outcome |-> "unknown_id"]

ProcessDatagramUncaught(data) ==
  LET parts == split(data) IN
  IF Len(parts) # 2 THEN [signal |-> "none", outcome |-> "malformed"]
  ELSE IF decode_raises(parts[1]) THEN [signal |-> "none", outcome |-> "raised"]
  ELSE IF imdecode(parts[2]) = "raise" THEN [signal |-> "none", outcome |-> "raised"]
  ELSE IF imdecode(parts[2]) = "None" THEN [signal |-> "none", outcome |-> "undecodable"]
  ELSE IF parts[1] = <<"A">> THEN [signal |-> "frame_a_received", outcome |-> "frame"]
  ELSE IF parts[1] = <<"B">> THEN [signal |-> "frame_b_received", outcome |-> "frame"]
  ELSE [signal |-> "none", outcome |-> "unknown_id"]

ProcessDatagramDefaultA(data) ==
  LET parts == split(data) IN
  IF Len(parts) # 2 THEN [signal |-> "none", outcome |-> "malformed"]
  ELSE IF decode_raises(parts[1]) THEN [signal |-> "none", outcome |-> "caught"]
  ELSE IF imdecode(parts[2]) = "raise" THEN [signal |-> "none", outcome |-> "caught"]
  ELSE IF imdecode(parts[2]) = "None" THEN [signal |-> "none", outcome |-> "undecodable"]
  ELSE IF parts[1] = <<"B">> THEN [signal |-> "frame_b_received", outcome |-> "frame"]
  ELSE [signal |-> "frame_a_received", outcome |-> "frame"]

ProcessDatagram(data) ==
  LET parts == split(data) IN
  IF Len(parts) # 2 THEN [signal |-> "none", outcome |-> "malformed"]
  ELSE IF decode_raises(parts[1]) THEN [signal |-> "none", outcome |-> "caught"]
  ELSE IF imdecode(parts[2]) = "raise" THEN [signal |-> "none", outcome |-> "caught"]
  ELSE IF imdecode(parts[2]) = "None" THEN [signal |-> "none", outcome |-> "undecodable"]
  ELSE IF parts[1] = <<"A">> THEN [signal |-> "frame_a_received", outcome |-> "frame"]
  ELSE IF parts[1] = <<"B">> THEN [signal |-> "frame_b_received", outcome |-> "frame"]
  ELSE [signal |-> "none", outcome |-> "unknown_id"]

\* NetworkManager re-publishes the two frame signals of the UdpClient under
\* the same names, and its connection_status_changed as
\* udp_connection_status_changed.
connect_signals(signal) ==
  IF signal = "frame_a_received" THEN <<"frame_a_received">>
  ELSE IF signal = "frame_b_received" THEN <<"frame_b_received">>
  ELSE IF signal = "connection_status_changed" THEN <<"udp_connection_status_changed">>
  ELSE <<>>

\* ------------------------------------------------------------- UdpClient
\* socket: 0 is None, otherwise the id of the socket object held.
\* sock_state[s]: "unused" (not created yet), "unbound" (created, bind
\* failed), "bound", "closed".  threads[s]: the receive thread started by
\* the connect() that created socket s; sock is the socket its recvfrom call
\* is blocked on.  status: the last connection_status_changed the client
\* emitted, "none" when it has emitted none; udp_client.py defines no such
\* signal, and connect(), disconnect() and _receive_frames emit nothing but
\* the two frame signals.
SockIds == 1..MaxSockets

UdpInit ==
  [socket |-> 0, is_running |-> FALSE, streaming |-> FALSE, status |-> "none",
   sock_state |-> [s \in SockIds |-> "unused"],
   threads |-> [s \in SockIds |-> [pc |-> "none", sock |-> 0]]]

\* the id the next socket object gets: the smallest one not in use
HasFree(u) == \E s \in SockIds : u.sock_state[s] = "unused"

NextSock(u) ==
  CHOOSE s \in SockIds :
    u.sock_state[s] = "unused" /\ \A r \in SockIds : u.sock_state[r] = "unused" => s <= r

\* the local port is free when none of the client's sockets holds it
PortFree(u) == \A s \in SockIds : u.sock_state[s] # "bound"

\* A socket object that neither self.socket nor a blocked recvfrom call
\* refers to is released by the interpreter, which closes it.
Referenced(u, s) ==
  u.socket = s \/ \E t \in SockIds : u.threads[t].pc = "recv" /\ u.threads[t].sock = s

\* Such a socket is closed; once it is closed and its thread has returned
\* (or was never started), nothing refers to either and the id is free again.
gc(u) ==
  LET closed(s) == u.sock_state[s] = "closed"
                   \/ (u.sock_state[s] \in {"bound", "unbound"} /\ ~Referenced(u, s))
      gone(s) == closed(s) /\ ~Referenced(u, s) /\ u.threads[s].pc \in {"none", "done"}
  IN  [u EXCEPT
         !.sock_state = [s \in SockIds |->
                           IF gone(s) THEN "unused"
                           ELSE IF closed(s) THEN "closed" ELSE u.sock_state[s]],
         !.threads = [s \in SockIds |->
                        IF gone(s) THEN [pc |-> "none", sock |-> 0] ELSE u.threads[s]]]

\* UdpClient.connect(); env_ok: the operating system lets the bind succeed.
connect(u, env_ok) ==
  LET s == NextSock(u) IN
  IF env_ok /\ PortFree(u)
  THEN gc([u EXCEPT !.socket = s, !.sock_state[s] = "bound", !.is_running = TRUE,
                    !.threads[s] = [pc |-> "loop", sock |-> 0]])
  ELSE gc([u EXCEPT !.socket = s, !.sock_state[s] = "unbound"])

\* the value connect() returns
connect_result(u, env_ok) == env_ok /\ PortFree(u)

\* what a caller of connect() is recorded to have called: the call and the
\* value it returned
ConnectCall(u, env_ok) ==
  {"udp.connect", IF connect_result(u, env_ok) THEN "udp.connect=True" ELSE "udp.connect=False"}

\* UdpClient.disconnect()
disconnect_keep_socket(u) ==
  IF u.socket # 0
  THEN gc([u EXCEPT !.is_running = FALSE, !.sock_state[u.socket] = "closed"])
  ELSE [u EXCEPT !.is_running = FALSE]

disconnect(u) ==
  IF u.socket # 0
  THEN gc([u EXCEPT !.is_running = FALSE, !.sock_state[u.socket] = "closed", !.socket = 0])
  ELSE [u EXCEPT !.is_running = FALSE]

\* UdpClient.is_connected(), start_streaming(), stop_streaming()
is_connected(u) == u.is_running

start_streaming(u) == [u EXCEPT !.streaming = TRUE]

stop_streaming(u) == [u EXCEPT !.streaming = FALSE]

\* ------------------------------------------------------------- TcpClient
\* state: "Disconnected", "Connecting" or "Connected"; pending: the cameras
\* of the CCTV requests sent and not answered yet.
TcpInit == [state |-> "Disconnected", pending |-> <<>>]

tcp_is_connected(c) == c.state = "Connected"

\* connect_to_server(): starts a connection attempt; the result arrives later
\* as a Connected or a ConnectionError event.
connect_to_server(c) ==
  IF c.state = "Disconnected" THEN [c EXCEPT !.state = "Connecting"] ELSE c

\* disconnect_from_server(): idempotent
disconnect_from_server(c) == [c EXCEPT !.state = "Disconnected", !.pending = <<>>]

\* request_cctv_a() / request_cctv_b(): a command is written only to a live
\* connection and is not queued otherwise.
send_request(c, camera) ==
  IF c.state = "Connected" THEN [c EXCEPT !.pending = Append(c.pending, camera)] ELSE c

Event(type, arg) == [type |-> type, arg |-> arg]

Responses == {"OK", "DENIED"}

\* ------------------------------------------------------ reconnect timer
\* reconnect_timer: the armed timer instances, each with the ticks left
\* until it expires.  QTimer.start(interval) on the one QTimer object
\* restarts it; QTimer.stop() disarms it; it is not single-shot, so it stays
\* armed after it fires.
timer_start_another(timer) == Append(timer, ReconnectInterval)

timer_start(timer) == <<ReconnectInterval>>

timer_stop(timer) == <<>>

Expired(timer) == {i \in 1..Len(timer) : timer[i] = 0}

\* ------------------------------------------------------------------ state
VARIABLES
  reconnect_timer,     \* NetworkManager.reconnect_timer
  reconnect_attempts,  \* NetworkManager.reconnect_attempts
  tcp_client,          \* NetworkManager.tcp_client
  tcp_events,          \* signals of the TcpClient queued for the GUI thread
  tcp_status,          \* last tcp_connection_status_changed emitted
  udp_client,          \* NetworkManager.udp_client
  rx,                  \* the last datagram received: the thread, the number of
                       \* separators in it, the camera whose frame it is,
                       \* what its image part decodes to, how the iteration
                       \* ended and the NetworkManager signals emitted for it
  h,                   \* the last operation and what it called
  obs                  \* what an observer has recorded of the run so far

vars == <<reconnect_timer, reconnect_attempts, tcp_client, tcp_events,
          tcp_status, udp_client, rx, h, obs>>

Min(a, b) == IF a < b THEN a ELSE b

\* h.op: the last operation; h.arg: the response it was called with;
\* h.calls: the calls it made on the channels and the timer; h.before: the
\* attempt count and the timer as they were when it began.
HInit == [op |-> "init", arg |-> "", calls |-> {}, before |-> [attempts |-> 0, timer |-> <<>>]]

\* obs.track: what the observer follows, which is all it records.
\* "restart": ever_connected, a control connection attempt has succeeded
\*   since the last start_services, and reconnect_calls, the connect_to_server
\*   calls made by _attempt_reconnect since the last start_services (counted
\*   up to MaxAttempts + 1);
\* "stop": stopped, stop_services was called and start_services not since;
\* "stream": approved_a, a CCTV A request was approved, and map_mode,
\*   request_map was called after such an approval and no CCTV request since;
\* "media": first_connect, the operation that made the first call of the
\*   media channel's connect().
ObsInit(track) ==
  [track |-> track, ever_connected |-> FALSE, reconnect_calls |-> 0, stopped |-> FALSE,
   approved_a |-> FALSE, map_mode |-> FALSE, first_connect |-> "none"]

Observed(op, arg, calls) ==
  CASE obs.track = "restart" ->
         [obs EXCEPT
            !.ever_connected = IF op = "start_services" THEN FALSE
                               ELSE IF op = "tcp_connect_ok" THEN TRUE ELSE @,
            !.reconnect_calls =
               IF op = "start_services" THEN 0
               ELSE IF op = "attempt_reconnect" /\ "tcp.connect_to_server" \in calls
                    THEN Min(@ + 1, MaxAttempts + 1)
               ELSE @]
    [] obs.track = "stop" ->
         [obs EXCEPT !.stopped = IF op = "stop_services" THEN TRUE
                                 ELSE IF op = "start_services" THEN FALSE ELSE @]
    [] obs.track = "stream" ->
         [obs EXCEPT
            !.approved_a = @ \/ (op = "handle_cctv_a_response" /\ arg = "OK"),
            !.map_mode = IF op \in {"request_cctv_a", "request_cctv_b"} THEN FALSE
                         ELSE IF op = "request_map" THEN obs.approved_a ELSE @]
    [] obs.track = "media" ->
         [obs EXCEPT !.first_connect = IF @ = "none" /\ "udp.connect" \in calls
                                       THEN op ELSE @]
    [] OTHER -> obs

\* the operation op, called with arg, made the calls
Did(op, arg, calls) ==
  /\ h' = [op |-> op, arg |-> arg, calls |-> calls,
           before |-> [attempts |-> reconnect_attempts, timer |-> reconnect_timer]]
  /\ obs' = Observed(op, arg, calls)

InitTracking(track) ==
  /\ reconnect_timer = <<>>
  /\ reconnect_attempts = 0
  /\ tcp_client = TcpInit
  /\ tcp_events = <<>>
  /\ tcp_status = [connected |-> FALSE, reason |-> "none"]
  /\ udp_client = UdpInit
  /\ rx = [t |-> 0, seps |-> 0, frame_of |-> "none", payload |-> "none",
           outcome |-> "none", emitted |-> <<>>]
  /\ h = HInit
  /\ obs = ObsInit(track)

Init == InitTracking("none")

\* --------------------------------------------------------- NetworkManager
start_services_both ==
  /\ HasFree(udp_client)
  /\ tcp_client' = connect_to_server(tcp_client)
  /\ udp_client' = connect(udp_client, TRUE)
  /\ Did("start_services", "", {"tcp.connect_to_server"} \cup ConnectCall(udp_client, TRUE))
  /\ UNCHANGED <<reconnect_timer, reconnect_attempts, tcp_events, tcp_status, rx>>

start_services ==
  /\ tcp_client' = connect_to_server(tcp_client)
  /\ Did("start_services", "", {"tcp.connect_to_server"})
  /\ UNCHANGED <<reconnect_timer, reconnect_attempts, tcp_events, tcp_status,
                 udp_client, rx>>

\* disconnect_from_server() announces a clean Disconnected when it ends an
\* established session.
stop_services ==
  /\ tcp_client' = disconnect_from_server(tcp_client)
  /\ tcp_events' = IF tcp_is_connected(tcp_client)
                   THEN Append(tcp_events, Event("disconnected", ""))
                   ELSE tcp_events
  /\ udp_client' = disconnect(udp_client)
  /\ Did("stop_services", "", {"tcp.disconnect_from_server", "udp.disconnect"})
  /\ UNCHANGED <<reconnect_timer, reconnect_attempts, tcp_status, rx>>

\* the clock advances by one tick while no armed timer instance is due
Tick ==
  /\ reconnect_timer # <<>>
  /\ Expired(reconnect_timer) = {}
  /\ reconnect_timer' = [i \in 1..Len(reconnect_timer) |-> reconnect_timer[i] - 1]
  /\ Did("tick", "", {})
  /\ UNCHANGED <<reconnect_attempts, tcp_client, tcp_events, tcp_status, udp_client, rx>>

\* _attempt_reconnect, the slot of reconnect_timer.timeout
attempt_reconnect_both ==
  \E i \in Expired(reconnect_timer), env_ok \in BOOLEAN :
    LET rearmed == [reconnect_timer EXCEPT ![i] = ReconnectInterval] IN
    IF reconnect_attempts >= MaxAttempts
    THEN /\ reconnect_timer' = timer_stop(rearmed)
         /\ Did("attempt_reconnect", "", {"timer.stop"})
         /\ UNCHANGED <<reconnect_attempts, tcp_client, tcp_events, tcp_status,
                        udp_client, rx>>
    ELSE /\ HasFree(udp_client)
         /\ reconnect_timer' = rearmed
         /\ reconnect_attempts' = reconnect_attempts + 1
         /\ tcp_client' = connect_to_server(tcp_client)
         /\ udp_client' = connect(udp_client, env_ok)
         /\ Did("attempt_reconnect", "",
                {"tcp.connect_to_server"} \cup ConnectCall(udp_client, env_ok))
         /\ UNCHANGED <<tcp_events, tcp_status, rx>>

attempt_reconnect_off_by_one ==
  \E i \in Expired(reconnect_timer), env_ok \in BOOLEAN :
    LET rearmed == [reconnect_timer EXCEPT ![i] = ReconnectInterval]
        tcp_down == ~tcp_is_connected(tcp_client)
        udp_down == ~is_connected(udp_client)
    IN
    IF reconnect_attempts > MaxAttempts
    THEN /\ reconnect_timer' = timer_stop(rearmed)
         /\ Did("attempt_reconnect", "", {"timer.stop"})
         /\ UNCHANGED <<reconnect_attempts, tcp_client, tcp_events, tcp_status,
                        udp_client, rx>>
    ELSE /\ udp_down => HasFree(udp_client)
         /\ reconnect_timer' = rearmed
         /\ reconnect_attempts' = reconnect_attempts + 1
         /\ tcp_client' = IF tcp_down THEN connect_to_server(tcp_client) ELSE tcp_client
         /\ udp_client' = IF udp_down THEN connect(udp_client, env_ok) ELSE udp_client
         /\ Did("attempt_reconnect", "",
                (IF tcp_down THEN {"tcp.connect_to_server"} ELSE {})
                  \cup (IF udp_down THEN ConnectCall(udp_client, env_ok) ELSE {}))
         /\ UNCHANGED <<tcp_events, tcp_status, rx>>

attempt_reconnect ==
  \E i \in Expired(reconnect_timer), env_ok \in BOOLEAN :
    LET rearmed == [reconnect_timer EXCEPT ![i] = ReconnectInterval]
        tcp_down == ~tcp_is_connected(tcp_client)
        udp_down == ~is_connected(udp_client)
    IN
    IF reconnect_attempts >= MaxAttempts
    THEN /\ reconnect_timer' = timer_stop(rearmed)
         /\ Did("attempt_reconnect", "", {"timer.stop"})
         /\ UNCHANGED <<reconnect_attempts, tcp_client, tcp_events, tcp_status,
                        udp_client, rx>>
    ELSE /\ udp_down => HasFree(udp_client)
         /\ reconnect_timer' = rearmed
         /\ reconnect_attempts' = reconnect_attempts + 1
         /\ tcp_client' = IF tcp_down THEN connect_to_server(tcp_client) ELSE tcp_client
         /\ udp_client' = IF udp_down THEN connect(udp_client, env_ok) ELSE udp_client
         /\ Did("attempt_reconnect", "",
                (IF tcp_down THEN {"tcp.connect_to_server"} ELSE {})
                  \cup (IF udp_down THEN ConnectCall(udp_client, env_ok) ELSE {}))
         /\ UNCHANGED <<tcp_events, tcp_status, rx>>

\* _on_tcp_connected
on_tcp_connected_keep_count ==
  /\ tcp_status' = [connected |-> TRUE, reason |-> "connected"]
  /\ reconnect_timer' = timer_stop(reconnect_timer)
  /\ Did("on_tcp_connected", "", {"timer.stop"})
  /\ UNCHANGED <<reconnect_attempts, tcp_client, udp_client, rx>>

on_tcp_connected ==
  /\ tcp_status' = [connected |-> TRUE, reason |-> "connected"]
  /\ reconnect_timer' = timer_stop(reconnect_timer)
  /\ reconnect_attempts' = 0
  /\ Did("on_tcp_connected", "", {"timer.stop"})
  /\ UNCHANGED <<tcp_client, udp_client, rx>>

\* _on_tcp_disconnected
on_tcp_disconnected ==
  /\ tcp_status' = [connected |-> FALSE, reason |-> "disconnected"]
  /\ Did("on_tcp_disconnected", "", {})
  /\ UNCHANGED <<reconnect_timer, reconnect_attempts, tcp_client, udp_client, rx>>

\* _on_tcp_connection_error
on_tcp_connection_error_media ==
  /\ HasFree(udp_client)
  /\ tcp_status' = [connected |-> FALSE, reason |-> "error"]
  /\ reconnect_attempts' = 0
  /\ reconnect_timer' = timer_start(reconnect_timer)
  /\ udp_client' = connect(udp_client, TRUE)
  /\ Did("on_tcp_connection_error", "", {"timer.start"} \cup ConnectCall(udp_client, TRUE))
  /\ UNCHANGED <<tcp_client, rx>>

on_tcp_connection_error_keep_count ==
  /\ tcp_status' = [connected |-> FALSE, reason |-> "error"]
  /\ reconnect_timer' = timer_start(reconnect_timer)
  /\ Did("on_tcp_connection_error", "", {"timer.start"})
  /\ UNCHANGED <<reconnect_attempts, tcp_client, udp_client, rx>>

on_tcp_connection_error ==
  /\ tcp_status' = [connected |-> FALSE, reason |-> "error"]
  /\ reconnect_attempts' = 0
  /\ reconnect_timer' = timer_start(reconnect_timer)
  /\ Did("on_tcp_connection_error", "", {"timer.start"})
  /\ UNCHANGED <<tcp_client, udp_client, rx>>

\* _handle_cctv_a_response and _handle_cctv_b_response have the same body
handle_cctv_response_any(op, response, env_ok) ==
  LET udp_down == ~is_connected(udp_client) IN
  /\ udp_down => HasFree(udp_client)
  /\ udp_client' = start_streaming(IF udp_down THEN connect(udp_client, env_ok)
                                   ELSE udp_client)
  /\ Did(op, response, (IF udp_down THEN ConnectCall(udp_client, env_ok) ELSE {})
                          \cup {"udp.start_streaming"})
  /\ UNCHANGED <<reconnect_timer, reconnect_attempts, tcp_client, tcp_status, rx>>

handle_cctv_response(op, response, env_ok) ==
  LET udp_down == ~is_connected(udp_client) IN
  IF response = "OK"
  THEN /\ udp_down => HasFree(udp_client)
       /\ udp_client' = start_streaming(IF udp_down THEN connect(udp_client, env_ok)
                                        ELSE udp_client)
       /\ Did(op, response, (IF udp_down THEN ConnectCall(udp_client, env_ok) ELSE {})
                               \cup {"udp.start_streaming"})
       /\ UNCHANGED <<reconnect_timer, reconnect_attempts, tcp_client, tcp_status, rx>>
  ELSE /\ Did(op, response, {})
       /\ UNCHANGED <<reconnect_timer, reconnect_attempts, tcp_client, tcp_status,
                      udp_client, rx>>

handle_cctv_a_response(response, env_ok) ==
  handle_cctv_response("handle_cctv_a_response", response, env_ok)

handle_cctv_b_response(response, env_ok) ==
  handle_cctv_response("handle_cctv_b_response", response, env_ok)

\* request_cctv_a and request_cctv_b
request_cctv(op, camera, env_ok) ==
  LET udp_down == ~is_connected(udp_client) IN
  /\ udp_down => HasFree(udp_client)
  /\ Len(tcp_client.pending) < MaxPending
  /\ udp_client' = IF udp_down THEN connect(udp_client, env_ok) ELSE udp_client
  /\ tcp_client' = send_request(tcp_client, camera)
  /\ Did(op, "", (IF udp_down THEN ConnectCall(udp_client, env_ok) ELSE {})
                    \cup {"tcp." \o op})
  /\ UNCHANGED <<reconnect_timer, reconnect_attempts, tcp_events, tcp_status, rx>>

request_cctv_a == \E env_ok \in BOOLEAN : request_cctv("request_cctv_a", "A", env_ok)

request_cctv_b == \E env_ok \in BOOLEAN : request_cctv("request_cctv_b", "B", env_ok)

\* request_map; the map response is only logged (_handle_map_response)
request_map ==
  /\ udp_client' = stop_streaming(udp_client)
  /\ Did("request_map", "", {"tcp.request_map", "udp.stop_streaming"})
  /\ UNCHANGED <<reconnect_timer, reconnect_attempts, tcp_client, tcp_events,
                 tcp_status, rx>>

\* ------------------------------------ delivery of the control channel's signals
DeliverConnected ==
  /\ tcp_events # <<>> /\ Head(tcp_events).type = "connected"
  /\ tcp_events' = Tail(tcp_events)
  /\ on_tcp_connected

DeliverDisconnected ==
  /\ tcp_events # <<>> /\ Head(tcp_events).type = "disconnected"
  /\ tcp_events' = Tail(tcp_events)
  /\ on_tcp_disconnected

DeliverConnectionError ==
  /\ tcp_events # <<>> /\ Head(tcp_events).type = "connection_error"
  /\ tcp_events' = Tail(tcp_events)
  /\ on_tcp_connection_error

DeliverCctvA ==
  /\ tcp_events # <<>> /\ Head(tcp_events).type = "cctv_a_response"
  /\ tcp_events' = Tail(tcp_events)
  /\ \E env_ok \in BOOLEAN : handle_cctv_a_response(Head(tcp_events).arg, env_ok)

DeliverCctvB ==
  /\ tcp_events # <<>> /\ Head(tcp_events).type = "cctv_b_response"
  /\ tcp_events' = Tail(tcp_events)
  /\ \E env_ok \in BOOLEAN : handle_cctv_b_response(Head(tcp_events).arg, env_ok)

\* ------------------------------------------- the control channel's environment
TcpStep(op, from, to, event) ==
  /\ tcp_client.state = from
  /\ Len(tcp_events) < MaxEvents
  /\ tcp_client' = [state |-> to, pending |-> IF to = "Connected" THEN tcp_client.pending
                                              ELSE <<>>]
  /\ tcp_events' = Append(tcp_events, event)
  /\ Did(op, "", {})
  /\ UNCHANGED <<reconnect_timer, reconnect_attempts, tcp_status, udp_client, rx>>

\* the attempt succeeds
TcpConnectOk == TcpStep("tcp_connect_ok", "Connecting", "Connected", Event("connected", ""))

\* the attempt fails
TcpConnectFail ==
  TcpStep("tcp_connect_fail", "Connecting", "Disconnected", Event("connection_error", ""))

\* an I/O failure ends the session
TcpIoError ==
  TcpStep("tcp_io_error", "Connected", "Disconnected", Event("connection_error", ""))

\* the server closes the session
TcpRemoteClose ==
  TcpStep("tcp_remote_close", "Connected", "Disconnected", Event("disconnected", ""))

\* the server answers the oldest unanswered CCTV request
ServerReply ==
  \E response \in Responses :
    /\ tcp_client.state = "Connected"
    /\ tcp_client.pending # <<>>
    /\ Len(tcp_events) < MaxEvents
    /\ tcp_client' = [tcp_client EXCEPT !.pending = Tail(tcp_client.pending)]
    /\ tcp_events' = Append(tcp_events,
                            Event(IF Head(tcp_client.pending) = "A" THEN "cctv_a_response"
                                  ELSE "cctv_b_response", response))
    /\ Did("server_reply", "", {})
    /\ UNCHANGED <<reconnect_timer, reconnect_attempts, tcp_status, udp_client, rx>>

\* --------------------------------------- UdpClient._receive_frames, per thread
\* What is recorded of a received datagram: the number of separators in it,
\* and the camera it is a frame of, <camera> <separator> <image ...>.
SepCount(data) == Cardinality({i \in 1..Len(data) : data[i] = SEP})

IsFrameOf(data, camera) ==
  /\ SepCount(data) = 1
  /\ Len(data) >= 3
  /\ data[1] = camera /\ data[2] = SEP /\ data[3] = "J"

FrameOf(data) ==
  IF IsFrameOf(data, "A") THEN "A" ELSE IF IsFrameOf(data, "B") THEN "B" ELSE "none"

\* what cv2.imdecode makes of the image part of a datagram with one
\* separator: "frame", "None" or "raise"; "none" for any other datagram
Payload(data) == IF Len(split(data)) = 2 THEN imdecode(split(data)[2]) ELSE "none"

Unchanged_supervisor ==
  UNCHANGED <<reconnect_timer, reconnect_attempts, tcp_client, tcp_events, tcp_status>>

\* the loop condition, and the call of recvfrom on the socket held
ThreadLoop(t) ==
  /\ udp_client.threads[t].pc = "loop"
  /\ udp_client.is_running => udp_client.socket # 0
  /\ udp_client' =
       gc(IF udp_client.is_running
          THEN [udp_client EXCEPT !.threads[t] = [pc |-> "recv", sock |-> udp_client.socket]]
          ELSE [udp_client EXCEPT !.threads[t] = [pc |-> "done", sock |-> 0]])
  /\ Did("receive_frames.loop", "", {})
  /\ rx' = rx
  /\ Unchanged_supervisor

\* the thread is blocked in recvfrom on a socket that can receive
Receiving(t) ==
  /\ udp_client.threads[t].pc = "recv"
  /\ udp_client.sock_state[udp_client.threads[t].sock] = "bound"

\* recvfrom returns a datagram; the rest of the iteration
ThreadRecv(t, data) ==
  LET r == ProcessDatagram(data) IN
  /\ Receiving(t)
  /\ udp_client' = gc([udp_client EXCEPT
                         !.threads[t] = [pc |-> IF r.outcome = "raised" THEN "done" ELSE "loop",
                                         sock |-> 0]])
  /\ rx' = [t |-> t, seps |-> SepCount(data), frame_of |-> FrameOf(data),
            payload |-> Payload(data), outcome |-> r.outcome,
            emitted |-> connect_signals(r.signal)]
  /\ Did("receive_frames.recv", "", {})
  /\ Unchanged_supervisor

\* recvfrom raises because the socket was closed; the handler of the loop
\* catches the error
ThreadRecvError(t) ==
  /\ udp_client.threads[t].pc = "recv"
  /\ udp_client.sock_state[udp_client.threads[t].sock] = "closed"
  /\ udp_client' = gc([udp_client EXCEPT !.threads[t] = [pc |-> "loop", sock |-> 0]])
  /\ Did("receive_frames.error", "", {})
  /\ rx' = rx
  /\ Unchanged_supervisor

\* ---------------------------------------------------------- specifications
Next ==
  \/ start_services
  \/ stop_services
  \/ Tick
  \/ attempt_reconnect
  \/ request_cctv_a
  \/ request_cctv_b
  \/ request_map
  \/ DeliverConnected
  \/ DeliverDisconnected
  \/ DeliverConnectionError
  \/ DeliverCctvA
  \/ DeliverCctvB
  \/ TcpConnectOk
  \/ TcpConnectFail
  \/ TcpIoError
  \/ TcpRemoteClose
  \/ ServerReply
  \/ \E t \in SockIds : ThreadLoop(t)
  \/ \E t \in SockIds, data \in SampleDatagrams : ThreadRecv(t, data)
  \/ \E t \in SockIds : ThreadRecvError(t)

Spec == Init /\ [][Next]_vars

\* the same program, with an observer that follows one aspect of the run
SpecRestart == InitTracking("restart") /\ [][Next]_vars

SpecStop == InitTracking("stop") /\ [][Next]_vars

SpecStream == InitTracking("stream") /\ [][Next]_vars

SpecFirst == InitTracking("media") /\ [][Next]_vars

\* The media channel alone: connect() and disconnect() called in any order,
\* and every datagram of up to MaxLen bytes.
UdpConnect ==
  \E env_ok \in BOOLEAN :
    /\ HasFree(udp_client)
    /\ udp_client' = connect(udp_client, env_ok)
    /\ Did("udp.connect", "", ConnectCall(udp_client, env_ok))
    /\ rx' = rx
    /\ Unchanged_supervisor

UdpDisconnect ==
  /\ udp_client' = disconnect(udp_client)
  /\ Did("udp.disconnect", "", IF udp_client.socket # 0 THEN {"socket.close"} ELSE {})
  /\ rx' = rx
  /\ Unchanged_supervisor

NextMedia ==
  \/ UdpConnect
  \/ UdpDisconnect
  \/ \E t \in SockIds : ThreadLoop(t)
  \/ \E t \in SockIds, data \in Datagrams : ThreadRecv(t, data)
  \/ \E t \in SockIds : ThreadRecvError(t)

SpecMedia == Init /\ [][NextMedia]_vars

\* The media channel under fair scheduling of its receive threads: a thread
\* that can test the loop condition does so, and a recvfrom blocked on a
\* socket that was closed returns with the error.  Datagrams arrive or not.
SpecMediaFair ==
  /\ Init
  /\ [][NextMedia]_vars
  /\ \A t \in SockIds : WF_vars(ThreadLoop(t)) /\ WF_vars(ThreadRecvError(t))

\* ------------------------------------------------------------------ claims
\* the state right after an iteration of a receive loop on a datagram
Received == h.op = "receive_frames.recv"

\* the thread that received the datagram is back at the head of its loop
LoopContinues == udp_client.threads[rx.t].pc = "loop"

\* C4: a datagram that does not contain the separator exactly once produces
\* no frame event and does not end the receive loop, and the datagram
\* received next, when it is a well-formed frame, is still processed.
C4_MalformedDropped ==
  /\ [](Received /\ rx.seps # 1 =>
          rx.emitted = <<>> /\ rx.outcome = "malformed" /\ LoopContinues)
  /\ [][rx.t # 0 /\ rx.seps # 1 /\ h'.op = "receive_frames.recv" =>
          /\ rx'.frame_of = "A" => rx'.emitted = <<"frame_a_received">>
          /\ rx'.frame_of = "B" => rx'.emitted = <<"frame_b_received">>]_vars

\* a datagram with two separators was dropped and the loop goes on
C4_Witness ==
  /\ Received
  /\ rx.seps = 2
  /\ rx.emitted = <<>>
  /\ LoopContinues

\* C5: a frame event is emitted only for camera A or B, on the channel of
\* that camera and exactly once per decodable datagram; a datagram of any
\* other camera produces no frame event, raises nothing and does not end
\* the receive loop.
C5_KnownCameraOnly ==
  Received =>
    /\ rx.frame_of = "A" <=> rx.emitted = <<"frame_a_received">>
    /\ rx.frame_of = "B" <=> rx.emitted = <<"frame_b_received">>
    /\ rx.emitted \in {<<>>, <<"frame_a_received">>, <<"frame_b_received">>}
    /\ rx.outcome # "raised"
    /\ LoopContinues

\* a decodable datagram of an unknown camera was dropped and the loop goes on
C5_Witness ==
  /\ Received
  /\ rx.seps = 1
  /\ rx.outcome = "unknown_id"
  /\ rx.emitted = <<>>
  /\ LoopContinues

\* the handlers of the two CCTV responses, and the operations that ask for
\* a stream
CctvHandlers == {"handle_cctv_a_response", "handle_cctv_b_response"}

StreamRequests == {"request_cctv_a", "request_cctv_b"} \cup CctvHandlers

\* the last operation was a fire of the reconnect timer
Fired == h.op = "attempt_reconnect"

\* C1: while the control channel never connects, _attempt_reconnect makes at
\* most max_attempts connect calls until start_services is called again.
C1_AttemptsStopAtCeiling == ~obs.ever_connected => obs.reconnect_calls <= MaxAttempts

\* C2: when stop_services returns the reconnect timer is not armed, and
\* _attempt_reconnect connects neither channel until start_services is called.
C2_StopDisarmsTimer ==
  obs.stopped =>
    /\ h.op = "stop_services" => reconnect_timer = <<>>
    /\ ~(Fired /\ h.calls \cap {"tcp.connect_to_server", "udp.connect"} # {})

\* C3: after a CCTV A request was approved and request_map was called, media
\* streaming is stopped and no frame is forwarded for a datagram received
\* before the next CCTV request.
C3_NoFrameAfterMapRequest ==
  obs.map_mode =>
    /\ ~udp_client.streaming
    /\ Received => rx.emitted = <<>>

\* C6: a timer fire below the ceiling adds exactly 1 to the attempt count, a
\* fire at the ceiling leaves it unchanged, and a Connected event sets it to
\* 0 and stops the reconnect timer.
C6_CountStepsAndResets ==
  /\ Fired => reconnect_attempts = IF h.before.attempts < MaxAttempts
                                   THEN h.before.attempts + 1
                                   ELSE h.before.attempts
  /\ h.op = "on_tcp_connected" => reconnect_attempts = 0 /\ reconnect_timer = <<>>

\* a Connected event arrived after an attempt, while the timer was armed
C6_Witness ==
  /\ h.op = "on_tcp_connected"
  /\ h.before.attempts > 0
  /\ h.before.timer # <<>>
  /\ reconnect_attempts = 0

\* C7: at most one instance of the reconnect timer is armed; a ConnectionError
\* restarts it for a whole interval, also when it was armed, and after a fire
\* none is due before another interval has passed.
C7_SingleTimer ==
  /\ Len(reconnect_timer) <= 1
  /\ h.op = "on_tcp_connection_error" => reconnect_timer = <<ReconnectInterval>>
  /\ Fired => Expired(reconnect_timer) = {}

\* a ConnectionError arrived while the timer was armed and due
C7_Witness ==
  /\ h.op = "on_tcp_connection_error"
  /\ h.before.timer = <<0>>
  /\ reconnect_timer = <<ReconnectInterval>>

\* C8: after the handler of an approval the media channel is connected and in
\* streaming mode, connect() having been called only if it was not connected;
\* the handler of any other response does nothing to either channel.
C8_ApprovalConnectsAndStreams ==
  h.op \in CctvHandlers =>
    IF h.arg = "OK"
    THEN is_connected(udp_client) /\ udp_client.streaming
    ELSE h.calls = {}

\* C8 as amended: the handler of an approval calls connect() exactly when the
\* media channel is not connected and then puts it into streaming mode;
\* afterwards the channel is connected exactly when it was connected or
\* connect() returned True.  The handler of any other response does nothing
\* to either channel.
C8_ApprovalTriesToConnectAndStreams ==
  [][h'.op \in CctvHandlers =>
       IF h'.arg = "OK"
       THEN /\ udp_client'.streaming
            /\ "udp.connect" \in h'.calls <=> ~is_connected(udp_client)
            /\ is_connected(udp_client') <=>
                 is_connected(udp_client) \/ "udp.connect=True" \in h'.calls
            /\ is_connected(udp_client) => udp_client' = start_streaming(udp_client)
            /\ tcp_client' = tcp_client
       ELSE /\ h'.calls = {}
            /\ udp_client' = udp_client
            /\ tcp_client' = tcp_client]_vars

\* the bind failed in the handler of an approval: the media channel is in
\* streaming mode and not connected
C8_Witness ==
  /\ h.op \in CctvHandlers
  /\ h.arg = "OK"
  /\ "udp.connect=False" \in h.calls
  /\ ~is_connected(udp_client)
  /\ udp_client.streaming

C11_ExhaustionSurfaced ==
  Fired /\ h.before.attempts >= MaxAttempts =>
    tcp_status = [connected |-> FALSE, reason |-> "exhausted"]

\* C12: after disconnect() the client is not running and holds no socket,
\* whatever state it was called in, and a further disconnect() changes
\* nothing.
C12_DisconnectIdempotent ==
  [][h'.op = "udp.disconnect" =>
       /\ ~udp_client'.is_running
       /\ udp_client'.socket = 0
       /\ disconnect(udp_client') = udp_client'
       /\ h.op = "udp.disconnect" => udp_client' = udp_client]_vars

\* disconnect() was called on a client that holds no socket, after an
\* earlier disconnect() whose receive thread has not returned yet
C12_Witness ==
  /\ h.op = "udp.disconnect"
  /\ h.calls = {}
  /\ udp_client.socket = 0
  /\ ~udp_client.is_running
  /\ \E s \in SockIds : udp_client.sock_state[s] = "closed"

\* C13: connect() returns True exactly when the bind succeeded, and the
\* client is then running with its receive thread started; when it returns
\* False the client is not running and holds no socket.
C13_ConnectReportsOutcome ==
  h.op = "udp.connect" =>
    IF "udp.connect=True" \in h.calls
    THEN /\ udp_client.is_running
         /\ udp_client.socket # 0
         /\ udp_client.sock_state[udp_client.socket] = "bound"
         /\ udp_client.threads[udp_client.socket].pc = "loop"
    ELSE /\ ~udp_client.is_running
         /\ udp_client.socket = 0

\* C14: the media channel emits a connection status event on a successful
\* bind (connected), on disconnect() and on a socket error in the receive
\* loop (both not connected), and NetworkManager re-publishes the event as
\* udp_connection_status_changed.
C14_MediaStatusPublished ==
  /\ connect_signals("connection_status_changed") = <<"udp_connection_status_changed">>
  /\ "udp.connect=True" \in h.calls => udp_client.status = "connected"
  /\ h.op \in {"udp.disconnect", "receive_frames.error"} =>
       udp_client.status = "disconnected"

\* a receive thread that is inside its loop, and one that has returned
InLoop(t) == udp_client.threads[t].pc \in {"loop", "recv"}

Returned(t) == udp_client.threads[t].pc \in {"none", "done"}

\* C15: a receive loop that is running when disconnect() is called
\* eventually returns, whatever is called afterwards, and no error leaves
\* the loop.
C15_DisconnectEndsLoop ==
  /\ \A t \in SockIds : (h.op = "udp.disconnect" /\ InLoop(t)) ~> Returned(t)
  /\ [](rx.outcome # "raised")

\* C20: at most one receive loop is active per client: after any calls of
\* connect() and disconnect(), never are two receive threads reading from
\* the socket the client holds.  (A thread that disconnect() has told to stop
\* and that has not tested the loop condition since is not counted.)
C20_SingleReceiveLoop ==
  \A t1, t2 \in SockIds :
    /\ udp_client.threads[t1].pc = "recv" /\ udp_client.threads[t1].sock = udp_client.socket
    /\ udp_client.threads[t2].pc = "recv" /\ udp_client.threads[t2].sock = udp_client.socket
    => t1 = t2

\* the image part of the last datagram does not decode
Undecodable == rx.seps = 1 /\ rx.payload \in {"None", "raise"}

\* C16: a datagram with one separator whose image part does not decode
\* produces no frame event, no error leaves the loop, and the datagram
\* received next, when it is a well-formed frame, is still processed.
C16_UndecodableDropped ==
  /\ [](Received /\ Undecodable =>
          /\ rx.emitted = <<>>
          /\ rx.outcome \in {"undecodable", "caught"}
          /\ LoopContinues)
  /\ [][rx.t # 0 /\ Undecodable /\ h'.op = "receive_frames.recv" =>
          /\ rx'.frame_of = "A" => rx'.emitted = <<"frame_a_received">>
          /\ rx'.frame_of = "B" => rx'.emitted = <<"frame_b_received">>]_vars

\* a datagram of camera A whose image part is empty was dropped, the error
\* of the decoder caught, and the loop goes on
C16_Witness ==
  /\ Received
  /\ rx.seps = 1
  /\ rx.payload = "raise"
  /\ rx.outcome = "caught"
  /\ rx.emitted = <<>>
  /\ LoopContinues

\* C17: the handler of a ConnectionError emits the status (False, reason of
\* the error), sets the attempt count to 0 and starts the reconnect timer
\* with the configured interval; the handler of a Disconnected emits the
\* status (False) and changes neither the attempt count nor the timer.
C17_ErrorArmsDisconnectDoesNot ==
  /\ h.op = "on_tcp_connection_error" =>
       /\ tcp_status = [connected |-> FALSE, reason |-> "error"]
       /\ reconnect_attempts = 0
       /\ reconnect_timer = <<ReconnectInterval>>
       /\ h.calls = {"timer.start"}
  /\ h.op = "on_tcp_disconnected" =>
       /\ tcp_status = [connected |-> FALSE, reason |-> "disconnected"]
       /\ reconnect_attempts = h.before.attempts
       /\ reconnect_timer = h.before.timer
       /\ h.calls = {}

\* a ConnectionError arrived after reconnect attempts had been counted
C17_Witness ==
  /\ h.op = "on_tcp_connection_error"
  /\ h.before.attempts > 0
  /\ reconnect_attempts = 0
  /\ tcp_status.reason = "error"

\* C18: a fire of the reconnect timer below the ceiling calls connect() on
\* the control channel exactly when it is not connected and on the media
\* channel exactly when it is not connected; a fire at the ceiling calls
\* connect() on neither.
C18_ReconnectsTheChannelsDown ==
  [][h'.op = "attempt_reconnect" =>
       IF reconnect_attempts < MaxAttempts
       THEN /\ "tcp.connect_to_server" \in h'.calls <=> ~tcp_is_connected(tcp_client)
            /\ "udp.connect" \in h'.calls <=> ~is_connected(udp_client)
            /\ tcp_is_connected(tcp_client) => tcp_client' = tcp_client
            /\ is_connected(udp_client) => udp_client' = udp_client
       ELSE /\ h'.calls \cap {"tcp.connect_to_server", "udp.connect"} = {}
            /\ tcp_client' = tcp_client
            /\ udp_client' = udp_client]_vars

\* a fire below the ceiling found the media channel connected and the
\* control channel not: it called connect() on the control channel only
C18_Witness ==
  /\ Fired
  /\ h.before.attempts < MaxAttempts
  /\ h.calls = {"tcp.connect_to_server"}
  /\ is_connected(udp_client)

\* C19: the attempt count is never negative and never above the ceiling.
C19_CountWithinBounds == 0 <= reconnect_attempts /\ reconnect_attempts <= MaxAttempts

\* a fire has brought the attempt count to the ceiling
C19_Witness == Fired /\ reconnect_attempts = MaxAttempts /\ h.before.attempts = MaxAttempts - 1

====
